---- MODULE Spec2Model ----
(***************************************************************************)
(* State-machine model of the DoorDash scraper.                            *)
(*   SCRAPE.py            DoorDashScraper.scrape_restaurant: category      *)
(*                        index, vertical sweep, carousel sweeps, ledger.  *)
(*   doordash_scraper.py  DoorDashScraper._scroll_page and the horizontal  *)
(*                        sweep of the reviews panel in _extract_reviews.  *)
(* Text is a tuple of one-character strings, so that split and strip are   *)
(* computed.  The browser is the environment: every reading it returns and *)
(* every effect of a scroll command is a choice from a small set.          *)
(***************************************************************************)
EXTENDS Integers, Sequences, FiniteSets, TLC

VARIABLES
    program,          \* which script's main() runs: "SCRAPE" or "doordash_scraper"
    pc,               \* position of the running script
    calls,            \* number of scrape_restaurant calls made on the instance
    categories_map,   \* SCRAPE.py scrape_restaurant: categories_map / headers_map
    master_menu,      \* SCRAPE.py self.master_menu: category -> sequence of items
    seen_hashes,      \* SCRAPE.py self.seen_hashes
    i,                \* _active_vertical_scrape: loop index of range(20)
    current_scroll,   \* _active_vertical_scrape: current_scroll kept for the re-check
    scrollY,          \* browser: window.scrollY (px)
    n_carousels,      \* _active_horizontal_scrape: len(potential_carousels)
    div,              \* _active_horizontal_scrape: index of the container iterated
    processed_count,  \* _active_horizontal_scrape: processed_count
    prev_scroll,      \* _process_single_carousel: prev_scroll
    attempts,         \* _process_single_carousel: attempts
    scrollLeft,       \* browser: scrollLeft of the carousel being swept (px)
    phases,           \* history: phases of the current call that have completed
    swept,            \* history: containers swept as carousels in this call, in order
    flat,             \* history: consecutive readings without growth seen by the sweeper
    sweep_end,        \* history: how the sweeper that ended in the last step ended
    last_height,      \* _scroll_page: last_height
    scroll_attempts,  \* _scroll_page: scroll_attempts
    pageYOffset,      \* browser: window.pageYOffset, in 1/Unit px
    step_size,        \* _scroll_page: step_size, in 1/Unit px
    back_left,        \* _scroll_page: iterations left of range(scroll_to_top_steps)
    selector,         \* _extract_reviews: index into review_container_selectors
    max_scroll,       \* _extract_reviews: max_scroll
    review_scroll,    \* _extract_reviews: current_scroll
    scroll_step,      \* _extract_reviews: scroll_step
    review_steps,     \* history: iterations of the reviews loop so far
    review_bound,     \* history: iterations the reviews loop needed at entry
    resampled,        \* history: the latest sample showed an item already in the ledger
    queried,          \* history: the scrollability query made in the last step, and its result
    unsampled,        \* history: the sweeper has scrolled since its latest sample
    last_view         \* history: the snapshot of the latest sample (sampler on its own)

vars == <<program, pc, calls, categories_map, master_menu, seen_hashes, i,
          current_scroll, scrollY, n_carousels, div, processed_count,
          prev_scroll, attempts, scrollLeft, phases, swept, flat, sweep_end,
          last_height, scroll_attempts, pageYOffset, step_size, back_left,
          selector, max_scroll, review_scroll, scroll_step, review_steps,
          review_bound, resampled, queried, unsampled, last_view>>

----------------------------------------------------------------------------
(* Bounds of the model *)
MaxCalls == 2            \* calls of scrape_restaurant on one instance
MaxNodes == 2            \* role=button nodes in one snapshot
MaxHeadings == 2         \* h2 headings in the initial snapshot
MaxContainers == 3       \* styled containers found by the carousel XPath
MaxScrollY == 800        \* largest window.scrollY the page allows
MaxScrollLeft == 8000    \* largest scrollLeft a carousel allows

MaxPageY == 1400         \* largest window.pageYOffset the page allows
MaxScrollWidth == 3000   \* largest scrollWidth the reviews panel reports

(* Program constants *)
VerticalCeiling == 20    \* range(20)
CarouselCeiling == 10    \* while attempts < 10
max_scroll_attempts == 50
NearBottomMargin == 100  \* scroll_position >= last_height - 100
NumSelectors == 5        \* len(review_container_selectors)
Unit == 2520             \* sub-pixel resolution: total_height / k is exact for k in 5..10
ScrollStep == 800        \* window.scrollBy(0, 800) and scrollLeft += 800
InnerHeight == 1080      \* window.innerHeight under --window-size=1920,1080
NoLine == 0 - 1          \* sourceline is None

Min(a, b) == IF a <= b THEN a ELSE b

----------------------------------------------------------------------------
(* Text *)
NoneText == <<"<None>">>                    \* Python None where text is expected
Whitespace == {" "}
Digits == {"3", "5", "6"}

Starters == <<"S","t","a","r","t","e","r","s">>
Mains == <<"M","a","i","n","s">>
MenuText == <<"M","e","n","u">>
Sides == <<"S","i","d","e","s">>
Uncategorized == <<"U","n","c","a","t","e","g","o","r","i","z","e","d">>
Burger == <<"B">>
Fries == <<"F">>

RECURSIVE LStrip(_)
LStrip(s) == IF s # <<>> /\ Head(s) \in Whitespace THEN LStrip(Tail(s)) ELSE s

RECURSIVE RStrip(_)
RStrip(s) ==
    IF s # <<>> /\ s[Len(s)] \in Whitespace
    THEN RStrip(SubSeq(s, 1, Len(s) - 1)) ELSE s

\* str.strip()
Strip(s) == RStrip(LStrip(s))

\* str.split('$')[0]: the part before the first '$'
RECURSIVE SplitDollar0(_)
SplitDollar0(s) ==
    IF s = <<>> \/ Head(s) = "$" THEN <<>>
    ELSE <<Head(s)>> \o SplitDollar0(Tail(s))

\* re.compile(r'\$\d+').search(s)
MatchesPrice(s) ==
    \E k \in 1..(Len(s) - 1) : s[k] = "$" /\ s[k + 1] \in Digits

----------------------------------------------------------------------------
(* Snapshots: what BeautifulSoup(self.driver.page_source) can show *)

\* an h2 with role=heading: its sourceline (or None) and its text
StartersH2 == [sourceline |-> 10, text |-> Starters]
MenuH2 == [sourceline |-> 20, text |-> MenuText]
ShortH2 == [sourceline |-> 30, text |-> <<"Y","o">>]
MainsH2 == [sourceline |-> 50, text |-> <<" ">> \o Mains \o <<" ">>]
SidesH2 == [sourceline |-> NoLine, text |-> Sides]
Headings == {StartersH2, MenuH2, ShortH2, MainsH2, SidesH2}

\* a div with role=button: aria-label, sourceline, text nodes, src of the
\* img tags, and whether its substructure makes extraction raise
Node(label, line, texts, imgs, bad) ==
    [aria_label |-> label, sourceline |-> line, strings |-> texts,
     img_src |-> imgs, malformed |-> bad]

NoLabelNode == Node(NoneText, 12, <<>>, <<>>, FALSE)
PriceOnlyNode == Node(<<"$","5">>, 5, << <<"$","5">> >>, <<>>, FALSE)
BurgerNode ==
    Node(<<"B"," ","$","5">>, 12, << Burger, <<" ","$","5"," ">> >>, << <<"b">> >>, FALSE)
BurgerAgainNode == Node(<<" ","B">>, 60, << <<"$","6">> >>, << NoneText >>, FALSE)
FriesNode == Node(<<"F","$","3">>, NoLine, << Fries >>, <<>>, FALSE)
BrokenNode == Node(<<"F">>, 60, << <<"$","3">> >>, <<>>, TRUE)
Nodes == {NoLabelNode, PriceOnlyNode, BurgerNode, BurgerAgainNode, FriesNode, BrokenNode}

SeqsUpTo(S, n) == UNION { [1..k -> S] : k \in 0..n }

\* find_all returns document order: known source lines never decrease
DocOrdered(hs) ==
    \A j, k \in 1..Len(hs) :
        (j < k /\ hs[j].sourceline # NoLine /\ hs[k].sourceline # NoLine)
            => hs[j].sourceline <= hs[k].sourceline

\* inputs of the sampler on its own: every node and heading kind
Views == SeqsUpTo(Nodes, MaxNodes)
HeadingLists == { hs \in SeqsUpTo(Headings, MaxHeadings) : DocOrdered(hs) }

\* inputs of a whole run: a page with two categories and two dishes
SweepViews == SeqsUpTo({BurgerNode, BurgerAgainNode, FriesNode}, MaxNodes)
SweepHeadingLists ==
    { hs \in SeqsUpTo({StartersH2, MainsH2}, MaxHeadings) :
        \A j, k \in 1..Len(hs) : j < k => hs[j].sourceline < hs[k].sourceline }

HeightReadings == {1880, 2680}

----------------------------------------------------------------------------
(* SCRAPE.py: pure parts *)

\* h2.sourceline or 0 / item_div.sourceline or 0
LineOr0(sourceline) == IF sourceline = NoLine \/ sourceline = 0 THEN 0 ELSE sourceline

\* list.sort(key=line) is stable: insert after the last entry with line <= h.line
RECURSIVE InsertSorted(_, _)
InsertSorted(h, sorted) ==
    IF sorted = <<>> THEN <<h>>
    ELSE IF sorted[Len(sorted)].line <= h.line THEN Append(sorted, h)
    ELSE Append(InsertSorted(h, SubSeq(sorted, 1, Len(sorted) - 1)), sorted[Len(sorted)])

\* a slip in the index: the sort is left out, the headings stay in document order
SortByLine_DocumentOrder(hs) == hs

RECURSIVE SortByLine(_)
SortByLine(hs) ==
    IF hs = <<>> THEN <<>>
    ELSE InsertSorted(hs[Len(hs)], SortByLine(SubSeq(hs, 1, Len(hs) - 1)))

\* the filter of _map_categories: len(text) > 2 and text != "Menu"
KeepHeading(text) == Len(text) > 2 /\ text # MenuText

RECURSIVE CollectHeaders(_)
CollectHeaders(h2s) ==
    IF h2s = <<>> THEN <<>>
    ELSE LET text == Strip(Head(h2s).text)
             rest == CollectHeaders(Tail(h2s))
         IN IF KeepHeading(text)
            THEN <<[line |-> LineOr0(Head(h2s).sourceline), name |-> text]>> \o rest
            ELSE rest

\* _map_categories(soup)
MapCategories(h2s) == SortByLine(CollectHeaders(h2s))

\* a slip in step 3: the first heading at or above the item instead of the last
AssignCategory_First(headers_map, item_line) ==
    IF headers_map = <<>> THEN Uncategorized
    ELSE IF item_line = 0 THEN headers_map[1].name
    ELSE LET headers_above == SelectSeq(headers_map, LAMBDA h : h.line <= item_line)
         IN IF headers_above # <<>> THEN headers_above[1].name ELSE headers_map[1].name

\* _parse_current_view, step 3: the category of an item at item_line
AssignCategory(headers_map, item_line) ==
    IF headers_map = <<>> THEN Uncategorized
    ELSE IF item_line = 0 THEN headers_map[1].name
    ELSE LET headers_above == SelectSeq(headers_map, LAMBDA h : h.line <= item_line)
         IN IF headers_above # <<>>
            THEN headers_above[Len(headers_above)].name
            ELSE headers_map[1].name

\* name = raw_label.split('$')[0].strip()
ItemName(raw_label) == Strip(SplitDollar0(raw_label))

\* a slip in the hash: the f-string has lost its field
ItemHash_Blank(name) == <<>>

\* item_hash = f"{name}"
ItemHash(name) == name

\* `if not raw_label`
Falsy(raw_label) == raw_label = NoneText \/ raw_label = <<>>

\* price: the first text node matching \$\d+, stripped
ExtractPrice(item_div) ==
    LET hits == SelectSeq(item_div.strings, MatchesPrice)
    IN IF hits = <<>> THEN NoneText ELSE Strip(hits[1])

\* image: src of the first img tag
ExtractImage(item_div) ==
    IF item_div.img_src = <<>> THEN NoneText ELSE item_div.img_src[1]

\* a slip in the ledger test: nothing counts as seen
AlreadySeen_Never(item_hash, seen) == FALSE

\* the ledger test `item_hash in self.seen_hashes`
AlreadySeen(item_hash, seen) == item_hash \in seen

\* a slip in recording: the hash is never added
RecordHash_Forget(item_hash, seen) == seen

\* a slip in recording: the ledger is overwritten with the newest hash
RecordHash_Replace(item_hash, seen) == {item_hash}

\* self.seen_hashes.add(item_hash)
RecordHash(item_hash, seen) == seen \cup {item_hash}

\* a slip in the append: the newest item is put at the front of its category
AppendItem_Front(menu, assigned_category, item) ==
    LET old == IF assigned_category \in DOMAIN menu THEN menu[assigned_category] ELSE <<>>
    IN [c \in DOMAIN menu \cup {assigned_category} |->
           IF c = assigned_category THEN <<item>> \o old ELSE menu[c]]

\* self.master_menu[assigned_category].append(item), creating the key first
AppendItem(menu, assigned_category, item) ==
    LET old == IF assigned_category \in DOMAIN menu THEN menu[assigned_category] ELSE <<>>
    IN [c \in DOMAIN menu \cup {assigned_category} |->
           IF c = assigned_category THEN Append(old, item) ELSE menu[c]]

\* a slip in the isolation: the hash is recorded before extraction, so that a
\* node that fails leaves its identity in the ledger
ProcessNode_HashFirst(item_div, st, headers_map) ==
    IF Falsy(item_div.aria_label) THEN st
    ELSE LET name == ItemName(item_div.aria_label)
             item_hash == ItemHash(name)
         IN IF AlreadySeen(item_hash, st.seen) THEN st
            ELSE IF item_div.malformed
                 THEN [menu |-> st.menu, seen |-> RecordHash(item_hash, st.seen)]
            ELSE LET item == [name |-> name, price |-> ExtractPrice(item_div),
                              image |-> ExtractImage(item_div)]
                     assigned_category ==
                         AssignCategory(headers_map, LineOr0(item_div.sourceline))
                 IN [menu |-> AppendItem(st.menu, assigned_category, item),
                     seen |-> RecordHash(item_hash, st.seen)]

\* one iteration of `for item_div in all_items`; st = [menu, seen]
ProcessNode(item_div, st, headers_map) ==
    IF Falsy(item_div.aria_label) THEN st
    ELSE LET name == ItemName(item_div.aria_label)
             item_hash == ItemHash(name)
         IN IF AlreadySeen(item_hash, st.seen) THEN st
            ELSE IF item_div.malformed THEN st        \* except: continue
            ELSE LET item == [name |-> name, price |-> ExtractPrice(item_div),
                              image |-> ExtractImage(item_div)]
                     assigned_category ==
                         AssignCategory(headers_map, LineOr0(item_div.sourceline))
                 IN [menu |-> AppendItem(st.menu, assigned_category, item),
                     seen |-> RecordHash(item_hash, st.seen)]

\* _parse_current_view(headers_map) on the snapshot all_items
RECURSIVE ParseCurrentView(_, _, _)
ParseCurrentView(all_items, st, headers_map) ==
    IF all_items = <<>> THEN st
    ELSE ParseCurrentView(Tail(all_items),
                          ProcessNode(Head(all_items), st, headers_map), headers_map)

Ledger == [menu |-> master_menu, seen |-> seen_hashes]

----------------------------------------------------------------------------
(* SCRAPE.py: scrape_restaurant as a sequence of steps against the browser *)

ledger_vars == <<master_menu, seen_hashes, resampled>>
vertical_vars == <<i, current_scroll>>
container_vars == <<n_carousels, div, processed_count>>
carousel_vars == <<prev_scroll, attempts, scrollLeft>>
scrape_vars == <<calls, categories_map, master_menu, seen_hashes, i, current_scroll,
                 scrollY, n_carousels, div, processed_count, prev_scroll, attempts,
                 scrollLeft, phases, swept, resampled, queried, unsampled, last_view>>
scroll_page_vars == <<last_height, scroll_attempts, pageYOffset, step_size, back_left>>
reviews_vars == <<selector, max_scroll, review_scroll, scroll_step, review_steps,
                  review_bound>>
page_vars == <<last_height, scroll_attempts, pageYOffset, step_size, back_left,
               selector, max_scroll, review_scroll, scroll_step, review_steps,
               review_bound>>

NoView == [taken |-> FALSE, view |-> <<>>]
NoQuery == [div |-> 0, result |-> "none"]
NoEnd == [axis |-> "none", how |-> "none", flat |-> 0, steps |-> 0]
Ended(axis, how, nflat, steps) ==
    [axis |-> axis, how |-> how, flat |-> nflat, steps |-> steps]

InitState ==
    /\ pc = "idle"
    /\ calls = 0
    /\ categories_map = <<>>
    /\ master_menu = <<>>          \* __init__: self.master_menu = {}
    /\ seen_hashes = {}            \* __init__: self.seen_hashes = set()
    /\ i = 0
    /\ current_scroll = 0
    /\ scrollY = 0
    /\ n_carousels = 0
    /\ div = 0
    /\ processed_count = 0
    /\ prev_scroll = 0 - 1
    /\ attempts = 0
    /\ scrollLeft = 0
    /\ phases = {}
    /\ swept = <<>>
    /\ flat = 0
    /\ sweep_end = NoEnd
    /\ last_height = 0
    /\ scroll_attempts = 0
    /\ pageYOffset = 0
    /\ step_size = 0
    /\ back_left = 0
    /\ selector = 0
    /\ max_scroll = 0
    /\ review_scroll = 0
    /\ scroll_step = 0
    /\ review_steps = 0
    /\ review_bound = 0
    /\ resampled = FALSE
    /\ queried = NoQuery
    /\ unsampled = FALSE
    /\ last_view = NoView

\* does the snapshot show a labelled node whose identity is in the ledger
ShowsSeen(view, seen) ==
    \E k \in 1..Len(view) :
        /\ ~Falsy(view[k].aria_label)
        /\ ItemHash(ItemName(view[k].aria_label)) \in seen

\* the sample taken by one _parse_current_view call
Sample(view) ==
    LET st == ParseCurrentView(view, Ledger, categories_map)
    IN /\ master_menu' = st.menu
       /\ seen_hashes' = st.seen
       /\ resampled' = ShowsSeen(view, seen_hashes)

\* window.scrollBy(0, 800): best effort, the page may already be at its end
ScrollByEffects(y) == {y, Min(y + ScrollStep, MaxScrollY)}

\* window.scrollTo(0, 0)
ScrollToTop(y) == 0

\* arguments[0].scrollLeft += 800: best effort, clamped at the carousel's end
ScrollLeftEffects(x) == {x, Min(x + ScrollStep, MaxScrollLeft)}

\* a slip in the vertical ceiling: one iteration too many
VerticalContinues_OffByOne(k) == k <= VerticalCeiling

\* for i in range(20)
VerticalContinues(k) == k < VerticalCeiling

\* while attempts < 10
CarouselContinues(k) == k < CarouselCeiling

\* a slip in the container loop: the same container is taken again
NextContainer_Same(d) == d

\* the container after div in `for div in potential_carousels`
NextContainer(d) == d + 1

\* a slip in the panel test: a failed query counts as a panel
IsPanel_Failed(is_scrollable) == is_scrollable \in {"true", "raises"}

\* `if is_scrollable:` on the result of scrollWidth > clientWidth
IsPanel(is_scrollable) == is_scrollable = "true"

\* the locals of a carousel sweep, as _process_single_carousel sets them on entry
CarouselEntry ==
    /\ prev_scroll' = 0 - 1
    /\ attempts' = 0
    /\ scrollLeft' = 0

\* a caller invokes scrape_restaurant(url): driver.get(url), sleep(10)
Navigate ==
    /\ program = "SCRAPE"
    /\ pc \in {"idle", "done"}
    /\ calls < MaxCalls
    /\ calls' = calls + 1
    /\ pc' = "loaded"
    /\ scrollY' = 0
    /\ phases' = {}
    /\ swept' = <<>>
    /\ flat' = 0
    /\ sweep_end' = NoEnd
    /\ queried' = NoQuery
    /\ unsampled' = FALSE
    /\ UNCHANGED <<page_vars, last_view>>
    /\ UNCHANGED <<program, categories_map, ledger_vars, vertical_vars, container_vars,
                   carousel_vars>>

\* categories_map = self._map_categories(soup_initial); _active_vertical_scrape starts
BuildIndex ==
    /\ program = "SCRAPE"
    /\ pc = "loaded"
    /\ \E h2s \in SweepHeadingLists : categories_map' = MapCategories(h2s)
    /\ pc' = "v_loop"
    /\ i' = 0
    /\ current_scroll' = 0
    /\ flat' = 0
    /\ phases' = phases \cup {"index"}
    /\ sweep_end' = NoEnd
    /\ queried' = NoQuery
    /\ unsampled' = FALSE
    /\ UNCHANGED <<page_vars, last_view>>
    /\ UNCHANGED <<program, calls, ledger_vars, scrollY, container_vars, carousel_vars,
                   swept>>

\* one iteration of the vertical loop: sample, scrollBy, read height and offset
VStep ==
    /\ program = "SCRAPE"
    /\ pc = "v_loop"
    /\ VerticalContinues(i)
    /\ \E view \in SweepViews : Sample(view)
    /\ \E y \in ScrollByEffects(scrollY), new_height \in HeightReadings :
          /\ scrollY' = y
          /\ current_scroll' = y + InnerHeight
          /\ IF y + InnerHeight >= new_height
             THEN /\ pc' = "v_confirm"          \* time.sleep(2), then re-check
                  /\ i' = i
                  /\ flat' = flat + 1
             ELSE /\ pc' = "v_loop"
                  /\ i' = i + 1
                  /\ flat' = 0
    /\ sweep_end' = NoEnd
    /\ queried' = NoQuery
    /\ unsampled' = TRUE
    /\ UNCHANGED <<page_vars, last_view>>
    /\ UNCHANGED <<program, calls, categories_map, container_vars, carousel_vars, phases,
                   swept>>

\* the double check after time.sleep(2): a fresh scrollHeight against current_scroll
VConfirm ==
    /\ program = "SCRAPE"
    /\ pc = "v_confirm"
    /\ \E new_height \in HeightReadings :
          IF current_scroll >= new_height
          THEN /\ pc' = "v_return"              \* break
               /\ i' = i
               /\ flat' = 0
               /\ sweep_end' = Ended("vertical", "SATURATED", flat + 1, i + 1)
          ELSE /\ pc' = "v_loop"
               /\ i' = i + 1
               /\ flat' = 0
               /\ sweep_end' = NoEnd
    /\ queried' = NoQuery
    /\ UNCHANGED unsampled
    /\ UNCHANGED <<page_vars, last_view>>
    /\ UNCHANGED <<program, calls, categories_map, ledger_vars, current_scroll, scrollY,
                   container_vars, carousel_vars, phases, swept>>

\* range(20) is exhausted
VCeiling ==
    /\ program = "SCRAPE"
    /\ pc = "v_loop"
    /\ ~VerticalContinues(i)
    /\ pc' = "v_return"
    /\ flat' = 0
    /\ sweep_end' = Ended("vertical", "ABORTED", flat, i)
    /\ queried' = NoQuery
    /\ UNCHANGED unsampled
    /\ UNCHANGED <<page_vars, last_view>>
    /\ UNCHANGED <<program, calls, categories_map, ledger_vars, vertical_vars, scrollY,
                   container_vars, carousel_vars, phases, swept>>

\* window.scrollTo(0, 0); sleep(2); _active_vertical_scrape returns
VReturn ==
    /\ program = "SCRAPE"
    /\ pc = "v_return"
    /\ scrollY' = ScrollToTop(scrollY)
    /\ pc' = "h_find"
    /\ i' = 0
    /\ current_scroll' = 0
    /\ phases' = phases \cup {"vertical"}
    /\ sweep_end' = NoEnd
    /\ queried' = NoQuery
    /\ unsampled' = FALSE
    /\ UNCHANGED <<page_vars, last_view>>
    /\ UNCHANGED <<program, calls, categories_map, ledger_vars, container_vars,
                   carousel_vars, swept, flat>>

\* potential_carousels = find_elements(...); processed_count = 0
HFind ==
    /\ program = "SCRAPE"
    /\ pc = "h_find"
    /\ \E n \in 0..MaxContainers : n_carousels' = n
    /\ div' = 1
    /\ processed_count' = 0
    /\ pc' = "h_iter"
    /\ sweep_end' = NoEnd
    /\ queried' = NoQuery
    /\ UNCHANGED unsampled
    /\ UNCHANGED <<page_vars, last_view>>
    /\ UNCHANGED <<program, calls, categories_map, ledger_vars, vertical_vars, scrollY,
                   carousel_vars, phases, swept, flat>>

\* the scrollability query of one container, and the start of its sweep
HCheck ==
    /\ program = "SCRAPE"
    /\ pc = "h_iter"
    /\ div <= n_carousels
    /\ \E is_scrollable \in {"true", "false", "raises"} :
          /\ queried' = [div |-> div, result |-> is_scrollable]
          /\ IF IsPanel(is_scrollable)
             THEN /\ processed_count' = processed_count + 1
                  /\ CarouselEntry
                  /\ swept' = Append(swept, div)
                  /\ pc' = "c_loop"
                  /\ div' = div
             ELSE /\ div' = NextContainer(div)    \* not a carousel / except: continue
                  /\ pc' = "h_iter"
                  /\ UNCHANGED <<processed_count, carousel_vars, swept>>
    /\ flat' = 0
    /\ sweep_end' = NoEnd
    /\ unsampled' = FALSE
    /\ UNCHANGED <<page_vars, last_view>>
    /\ UNCHANGED <<program, calls, categories_map, ledger_vars, vertical_vars, scrollY,
                   n_carousels, phases>>

\* one iteration of the carousel loop: sample, read scrollLeft, compare, scroll right
CStep ==
    /\ program = "SCRAPE"
    /\ pc = "c_loop"
    /\ CarouselContinues(attempts)
    /\ \E view \in SweepViews : Sample(view)
    /\ LET curr_scroll == scrollLeft IN
       IF curr_scroll = prev_scroll
       THEN /\ pc' = "h_iter"                     \* break: reached end
            /\ div' = NextContainer(div)
            /\ flat' = 0
            /\ sweep_end' = Ended("panel", "SATURATED", flat + 1, attempts + 1)
            /\ unsampled' = FALSE
            /\ CarouselEntry
       ELSE /\ prev_scroll' = curr_scroll
            /\ \E x \in ScrollLeftEffects(scrollLeft) : scrollLeft' = x
            /\ attempts' = attempts + 1
            /\ flat' = 0
            /\ sweep_end' = NoEnd
            /\ unsampled' = TRUE
            /\ UNCHANGED <<pc, div>>
    /\ queried' = NoQuery
    /\ UNCHANGED <<page_vars, last_view>>
    /\ UNCHANGED <<program, calls, categories_map, vertical_vars, scrollY, n_carousels,
                   processed_count, phases, swept>>

\* attempts has reached 10: _process_single_carousel returns
CCeiling ==
    /\ program = "SCRAPE"
    /\ pc = "c_loop"
    /\ ~CarouselContinues(attempts)
    /\ pc' = "h_iter"
    /\ div' = NextContainer(div)
    /\ flat' = 0
    /\ sweep_end' = Ended("panel", "ABORTED", flat, attempts)
    /\ CarouselEntry
    /\ queried' = NoQuery
    /\ UNCHANGED unsampled
    /\ UNCHANGED <<page_vars, last_view>>
    /\ UNCHANGED <<program, calls, categories_map, ledger_vars, vertical_vars, scrollY,
                   n_carousels, processed_count, phases, swept>>

\* a driver call inside _process_single_carousel raises: `except: continue` (line 121)
CRaise ==
    /\ program = "SCRAPE"
    /\ pc = "c_loop"
    /\ CarouselContinues(attempts)
    /\ \/ UNCHANGED <<ledger_vars, unsampled>>    \* page_source raised
       \/ /\ \E view \in SweepViews : Sample(view)  \* a script raised after the sample
          /\ unsampled' = FALSE
    /\ pc' = "h_iter"
    /\ div' = NextContainer(div)
    /\ flat' = 0
    /\ sweep_end' = Ended("panel", "FAILED", flat, attempts)
    /\ CarouselEntry
    /\ queried' = NoQuery
    /\ UNCHANGED <<page_vars, last_view>>
    /\ UNCHANGED <<program, calls, categories_map, vertical_vars, scrollY, n_carousels,
                   processed_count, phases, swept>>

\* the container loop is over: _active_horizontal_scrape returns
HDone ==
    /\ program = "SCRAPE"
    /\ pc = "h_iter"
    /\ div > n_carousels
    /\ pc' = "final"
    /\ n_carousels' = 0
    /\ div' = 0
    /\ processed_count' = 0
    /\ phases' = phases \cup {"panels"}
    /\ sweep_end' = NoEnd
    /\ queried' = NoQuery
    /\ unsampled' = FALSE
    /\ UNCHANGED <<page_vars, last_view>>
    /\ UNCHANGED <<program, calls, categories_map, ledger_vars, vertical_vars, scrollY,
                   carousel_vars, swept, flat>>

\* reviews and restaurant info are extracted and the result dict is returned
Return ==
    /\ program = "SCRAPE"
    /\ pc = "final"
    /\ pc' = "done"
    /\ phases' = phases \cup {"returned"}
    /\ sweep_end' = NoEnd
    /\ queried' = NoQuery
    /\ UNCHANGED unsampled
    /\ UNCHANGED <<page_vars, last_view>>
    /\ UNCHANGED <<program, calls, categories_map, ledger_vars, vertical_vars, scrollY,
                   container_vars, carousel_vars, swept, flat>>

\* a driver call outside the try of _active_horizontal_scrape raises: the
\* exception leaves scrape_restaurant, whose locals are gone
Raise ==
    /\ program = "SCRAPE"
    /\ \/ /\ pc \in {"loaded", "v_confirm", "v_return", "h_find", "final"}
          /\ UNCHANGED ledger_vars
       \/ /\ pc = "v_loop"
          /\ VerticalContinues(i)
          /\ \/ UNCHANGED ledger_vars
             \/ \E view \in SweepViews : Sample(view)
    /\ pc' = "raised"
    /\ i' = 0
    /\ current_scroll' = 0
    /\ n_carousels' = 0
    /\ div' = 0
    /\ processed_count' = 0
    /\ flat' = 0
    /\ sweep_end' = NoEnd
    /\ queried' = NoQuery
    /\ unsampled' = FALSE
    /\ UNCHANGED <<page_vars, last_view>>
    /\ UNCHANGED <<program, calls, categories_map, scrollY, carousel_vars, phases, swept>>

NextScrape ==
    \/ Navigate \/ BuildIndex
    \/ VStep \/ VConfirm \/ VCeiling \/ VReturn
    \/ HFind \/ HCheck \/ CStep \/ CCeiling \/ CRaise \/ HDone
    \/ Return \/ Raise

----------------------------------------------------------------------------
(* doordash_scraper.py: _scroll_page and the reviews sweep of _extract_reviews *)

PageHeights == {1500, 2500}            \* document.body.scrollHeight readings
ScrollAmounts == {400, 700}            \* random.randint(400, 700)
NudgeAmounts == {200, 400}             \* random.randint(200, 400)
TopSteps == 5..10                      \* random.randint(5, 10)
ReviewScrollSteps == {300, 600}        \* random.randint(300, 600)
InitialWidths == {600, 1200}           \* scrollWidth of the reviews container

Max(a, b) == IF a >= b THEN a ELSE b

\* ceil(a / b)
CeilDiv(a, b) == (a + b - 1) \div b

\* window.scrollBy(0, pixels), pixels > 0: best effort, clamped at the page's end
PageScrollEffects(y, pixels) == {y, Min(y + pixels * Unit, MaxPageY * Unit)}

\* window.pageYOffset + window.innerHeight, in px
ScrollPosition(y) == (y \div Unit) + InnerHeight

\* a slip in the step size: floor division of whole pixels
StepSize_Floor(total_height, scroll_to_top_steps) ==
    ((total_height \div Unit) \div scroll_to_top_steps) * Unit

\* step_size = total_height / scroll_to_top_steps (true division)
StepSize(total_height, scroll_to_top_steps) == total_height \div scroll_to_top_steps

\* window.scrollBy(0, -step_size): the offset never goes below 0
ScrollBack(y, step) == Max(0, y - step)

\* while scroll_attempts < max_scroll_attempts
PageContinues(k) == k < max_scroll_attempts

\* scrollWidth readings after a step: unchanged, or grown by lazily loaded reviews
WidthReadings(w, step) == { x \in {w, w + step} : x <= MaxScrollWidth }

\* scrape_restaurant(url): driver.get, delay; _scroll_page reads the first height
PNavigate ==
    /\ program = "doordash_scraper"
    /\ pc = "idle"
    /\ \E h \in PageHeights : last_height' = h
    /\ scroll_attempts' = 0
    /\ pageYOffset' = 0
    /\ pc' = "p_loop"
    /\ flat' = 0
    /\ sweep_end' = NoEnd
    /\ UNCHANGED <<program, scrape_vars, step_size, back_left, reviews_vars>>

\* one iteration of the page loop up to the near-bottom test
PStep ==
    /\ program = "doordash_scraper"
    /\ pc = "p_loop"
    /\ PageContinues(scroll_attempts)
    /\ \E scroll_amount \in ScrollAmounts, new_height \in PageHeights :
         \E y \in PageScrollEffects(pageYOffset, scroll_amount) :
            LET scroll_position == ScrollPosition(y)
                height == IF new_height > last_height THEN new_height ELSE last_height
            IN /\ pageYOffset' = y
               /\ last_height' = height
               /\ IF scroll_position >= height - NearBottomMargin
                  THEN /\ pc' = "p_near"
                       /\ scroll_attempts' = scroll_attempts
                       /\ flat' = flat + 1
                  ELSE /\ pc' = "p_loop"
                       /\ scroll_attempts' = scroll_attempts + 1
                       /\ flat' = 0
    /\ sweep_end' = NoEnd
    /\ UNCHANGED <<program, scrape_vars, step_size, back_left, reviews_vars>>

\* near the bottom: scroll a bit more, wait, and read the height once more
PNearBottom ==
    /\ program = "doordash_scraper"
    /\ pc = "p_near"
    /\ \E nudge \in NudgeAmounts, final_height \in PageHeights :
         /\ \E y \in PageScrollEffects(pageYOffset, nudge) : pageYOffset' = y
         /\ IF final_height = last_height
            THEN /\ pc' = "p_back"                 \* break
                 /\ flat' = 0
                 /\ sweep_end' = Ended("page", "SATURATED", flat + 1, scroll_attempts + 1)
                 /\ UNCHANGED <<last_height, scroll_attempts>>
            ELSE /\ last_height' = final_height
                 /\ scroll_attempts' = scroll_attempts + 1
                 /\ pc' = "p_loop"
                 /\ flat' = 0
                 /\ sweep_end' = NoEnd
    /\ UNCHANGED <<program, scrape_vars, step_size, back_left, reviews_vars>>

\* scroll_attempts has reached max_scroll_attempts
PCeiling ==
    /\ program = "doordash_scraper"
    /\ pc = "p_loop"
    /\ ~PageContinues(scroll_attempts)
    /\ pc' = "p_back"
    /\ flat' = 0
    /\ sweep_end' = Ended("page", "ABORTED", flat, scroll_attempts)
    /\ UNCHANGED <<program, scrape_vars, scroll_page_vars, reviews_vars>>

\* scroll_to_top_steps, total_height and step_size are fixed
PBackStart ==
    /\ program = "doordash_scraper"
    /\ pc = "p_back"
    /\ \E scroll_to_top_steps \in TopSteps :
         /\ step_size' = StepSize(pageYOffset, scroll_to_top_steps)
         /\ back_left' = scroll_to_top_steps
    /\ pc' = "p_back_loop"
    /\ sweep_end' = NoEnd
    /\ UNCHANGED <<program, scrape_vars, last_height, scroll_attempts, pageYOffset,
                   reviews_vars, flat>>

\* one iteration of `for _ in range(scroll_to_top_steps)`
PBackStep ==
    /\ program = "doordash_scraper"
    /\ pc = "p_back_loop"
    /\ back_left > 0
    /\ pageYOffset' = ScrollBack(pageYOffset, step_size)
    /\ back_left' = back_left - 1
    /\ UNCHANGED <<program, pc, scrape_vars, last_height, scroll_attempts, step_size,
                   reviews_vars, flat, sweep_end>>

\* _scroll_page returns; scrape_restaurant goes on to the extraction
PBackDone ==
    /\ program = "doordash_scraper"
    /\ pc = "p_back_loop"
    /\ back_left = 0
    /\ pc' = "p_extract"
    /\ last_height' = 0
    /\ scroll_attempts' = 0
    /\ step_size' = 0
    /\ UNCHANGED <<program, scrape_vars, pageYOffset, back_left, reviews_vars, flat,
                   sweep_end>>

\* _extract_restaurant_info and _extract_menu_items; scrollIntoView of a menu
\* section may move the page; then _extract_reviews starts with the first selector
PExtract ==
    /\ program = "doordash_scraper"
    /\ pc = "p_extract"
    /\ \E y \in {0, MaxPageY * Unit} : pageYOffset' = y
    /\ selector' = 1
    /\ pc' = "r_select"
    /\ UNCHANGED <<program, scrape_vars, last_height, scroll_attempts, step_size, back_left,
                   max_scroll, review_scroll, scroll_step, review_steps, review_bound,
                   flat, sweep_end>>

\* one selector of review_container_selectors is tried
RSelect ==
    /\ program = "doordash_scraper"
    /\ pc = "r_select"
    /\ selector <= NumSelectors
    /\ \/ /\ selector' = selector + 1              \* except: continue, when find_element
          /\ UNCHANGED <<pc, max_scroll, review_scroll, scroll_step, review_steps,
                         review_bound>>            \* raises or scrollWidth is no number
       \/ \E w \in InitialWidths, step \in ReviewScrollSteps :
             /\ max_scroll' = w
             /\ review_scroll' = 0
             /\ scroll_step' = step
             /\ review_steps' = 0
             /\ review_bound' = CeilDiv(w, step)
             /\ pc' = "r_loop"
             /\ UNCHANGED selector
    /\ UNCHANGED <<program, scrape_vars, scroll_page_vars, flat, sweep_end>>

\* while current_scroll < max_scroll
ReviewsContinue(cur, limit) == cur < limit

\* one iteration of the reviews loop
RStep ==
    /\ program = "doordash_scraper"
    /\ pc = "r_loop"
    /\ ReviewsContinue(review_scroll, max_scroll)
    /\ review_scroll' = review_scroll + scroll_step
    /\ \E new_max \in WidthReadings(max_scroll, scroll_step) :
         max_scroll' = IF new_max > max_scroll THEN new_max ELSE max_scroll
    /\ review_steps' = review_steps + 1
    /\ UNCHANGED <<program, pc, scrape_vars, scroll_page_vars, selector, scroll_step,
                   review_bound, flat, sweep_end>>

\* a script of the reviews loop raises: `except: continue` with the next selector
RRaise ==
    /\ program = "doordash_scraper"
    /\ pc = "r_loop"
    /\ ReviewsContinue(review_scroll, max_scroll)
    /\ selector' = selector + 1
    /\ pc' = "r_select"
    /\ UNCHANGED <<program, scrape_vars, scroll_page_vars, max_scroll, review_scroll,
                   scroll_step, review_steps, review_bound, flat, sweep_end>>

\* the reviews loop ends (break), or no selector is left: the reviews are read
\* and scrape_restaurant returns
RDone ==
    /\ program = "doordash_scraper"
    /\ \/ pc = "r_loop" /\ ~ReviewsContinue(review_scroll, max_scroll)
       \/ pc = "r_select" /\ selector > NumSelectors
    /\ pc' = "done"
    /\ UNCHANGED <<program, scrape_vars, scroll_page_vars, reviews_vars, flat, sweep_end>>

\* a driver call of _scroll_page raises: the exception leaves scrape_restaurant
PRaise ==
    /\ program = "doordash_scraper"
    /\ pc \in {"idle", "p_loop", "p_near", "p_back", "p_back_loop"}
    /\ pc' = "raised"
    /\ last_height' = 0
    /\ scroll_attempts' = 0
    /\ step_size' = 0
    /\ back_left' = 0
    /\ flat' = 0
    /\ sweep_end' = NoEnd
    /\ UNCHANGED <<program, scrape_vars, pageYOffset, reviews_vars>>

NextPage ==
    \/ PNavigate \/ PStep \/ PNearBottom \/ PCeiling
    \/ PBackStart \/ PBackStep \/ PBackDone \/ PExtract
    \/ RSelect \/ RStep \/ RRaise \/ RDone \/ PRaise

----------------------------------------------------------------------------
(* SCRAPE.py: the sampler on its own.  Whatever the sweeps do, the ledger    *)
(* sees a call's index being built and then a sequence of                    *)
(* _parse_current_view calls; here these take every kind of heading and node *)

\* scrape_restaurant is called and builds its index
SIndex ==
    /\ pc = "idle"
    /\ calls' = calls + 1
    /\ \E h2s \in HeadingLists : categories_map' = MapCategories(h2s)
    /\ pc' = "sampling"
    /\ last_view' = NoView
    /\ UNCHANGED <<program, ledger_vars, vertical_vars, scrollY, container_vars,
                   carousel_vars, phases, swept, flat, sweep_end, queried, unsampled,
                   page_vars>>

\* one _parse_current_view call of some sweep step
SSample ==
    /\ pc = "sampling"
    /\ \E view \in Views :
         /\ Sample(view)
         /\ last_view' = [taken |-> TRUE, view |-> view]
    /\ UNCHANGED <<program, pc, calls, categories_map, vertical_vars, scrollY,
                   container_vars, carousel_vars, phases, swept, flat, sweep_end,
                   queried, unsampled, page_vars>>

InitSample == program = "SCRAPE" /\ InitState
NextSample == SIndex \/ SSample
SpecSample == InitSample /\ [][NextSample]_vars

Init == program \in {"SCRAPE", "doordash_scraper"} /\ InitState
Next == NextScrape \/ NextPage
Spec == Init /\ [][Next]_vars

----------------------------------------------------------------------------
(* Claims *)

MaxLine == 61
Positions == 0..MaxLine

\* C1: in every state of a discovery run each identity key (item name) occurs
\* in at most one entry of master_menu, over all categories together, also
\* when an item recorded earlier reappears in a sample of a carousel sweep
C1_NoDuplicateIdentity ==
    \A c1 \in DOMAIN master_menu, c2 \in DOMAIN master_menu :
        \A k1 \in 1..Len(master_menu[c1]), k2 \in 1..Len(master_menu[c2]) :
            master_menu[c1][k1].name = master_menu[c2][k2].name
                => (c1 = c2 /\ k1 = k2)

\* the first sample of the first carousel of the first call shows an item that
\* the vertical sweep recorded, and both dishes are in the ledger
C1_Witness ==
    /\ program = "SCRAPE" /\ calls = 1
    /\ pc = "c_loop" /\ Len(swept) = 1 /\ attempts = 1
    /\ resampled
    /\ seen_hashes = {Burger, Fries}

\* C2: sampling is idempotent per snapshot: sampling the snapshot that was
\* sampled last once more leaves master_menu and seen_hashes as they are
C2_IdempotentSample ==
    last_view.taken =>
        ParseCurrentView(last_view.view, Ledger, categories_map) = Ledger

\* the snapshot sampled last showed the burger twice, and it was recorded
C2_Witness ==
    /\ last_view = [taken |-> TRUE, view |-> <<BurgerNode, BurgerAgainNode>>]
    /\ Burger \in seen_hashes
    /\ resampled = FALSE

\* the boundaries of the index at or before position P
BoundariesUpTo(index, P) == { k \in 1..Len(index) : index[k].line <= P }

\* the reference rule of category assignment
ReferenceCategories(index, P) ==
    IF index = <<>> THEN {Uncategorized}
    ELSE IF P = 0 \/ BoundariesUpTo(index, P) = {} THEN {index[1].name}
    ELSE { index[k].name : k \in
             { j \in BoundariesUpTo(index, P) :
                 \A m \in BoundariesUpTo(index, P) : index[m].line <= index[j].line } }

ScenarioIndex == <<[line |-> 10, name |-> Starters], [line |-> 50, name |-> Mains]>>

\* C3: for every position P and every index built, the category assigned is
\* "Uncategorized" for the empty index, else the name of the boundary with the
\* greatest position <= P, else (none qualifies, or P = 0) the first boundary;
\* boundaries [10 Starters, 50 Mains] and items at 5, 12, 60 give Starters,
\* Starters, Mains
C3_AssignmentRule ==
    /\ \A P \in Positions :
          AssignCategory(categories_map, P) \in ReferenceCategories(categories_map, P)
    /\ \A P \in Positions : Cardinality(ReferenceCategories(categories_map, P)) = 1
    /\ <<AssignCategory(ScenarioIndex, 5), AssignCategory(ScenarioIndex, 12),
         AssignCategory(ScenarioIndex, 60)>> = <<Starters, Starters, Mains>>

\* with the index of the scenario, the price-only node of line 5 was filed under
\* Starters and the burger of line 60 under Mains
C3_Witness ==
    /\ categories_map = ScenarioIndex
    /\ DOMAIN master_menu = {Starters, Mains}
    /\ master_menu[Starters][1].name = <<>>
    /\ master_menu[Mains][1].name = Burger

CeilingOf(axis) ==
    IF axis = "vertical" THEN VerticalCeiling
    ELSE IF axis = "panel" THEN CarouselCeiling
    ELSE max_scroll_attempts

C4_Bounded ==
    /\ i <= VerticalCeiling
    /\ attempts <= CarouselCeiling
    /\ scroll_attempts <= max_scroll_attempts
    /\ sweep_end.axis # "none" =>
          /\ sweep_end.how \in {"SATURATED", "ABORTED", "FAILED"}
          /\ sweep_end.steps <= CeilingOf(sweep_end.axis)
          /\ sweep_end.how = "ABORTED" => sweep_end.steps = CeilingOf(sweep_end.axis)

C4_Progress ==
    /\ (pc \in {"v_loop", "v_confirm"} /\ pc' = "v_loop") => i' = i + 1
    /\ (pc = "c_loop" /\ pc' = "c_loop") => attempts' = attempts + 1
    /\ (pc \in {"p_loop", "p_near"} /\ pc' = "p_loop") => scroll_attempts' = scroll_attempts + 1
    /\ (pc = "v_loop" /\ pc' = "v_confirm") => i' = i
    /\ (pc = "p_loop" /\ pc' = "p_near") => scroll_attempts' = scroll_attempts

\* C4: the vertical sweeper stops after at most 20 steps, a carousel sweeper
\* after at most 10, the page-scroll loop after at most 50 iterations: every
\* pass through a loop raises its step counter, the counters never exceed the
\* ceilings, and a sweeper that was not cut short by a driver failure ends by
\* its saturation test or, at the ceiling exactly, by its step ceiling
C4_SweeperTermination == []C4_Bounded /\ [][C4_Progress]_vars

\* a vertical sweep has run into its ceiling of 20 steps
C4_Witness == sweep_end = Ended("vertical", "ABORTED", 0, VerticalCeiling)

\* C5: no sweeper becomes SATURATED on a single flat reading: a sweeper that
\* ends by saturation has seen two readings without growth in a row
C5_NeverSaturatedOnOneReading ==
    sweep_end.how = "SATURATED" => sweep_end.flat >= 2

\* C6: every scroll-driving loop is bounded by a step count that is fixed when
\* the loop starts, also when the extent grows on every step; for the reviews
\* sweep the only such count is the number of steps its first scrollWidth needs
C6_EveryLoopHasCeiling ==
    /\ i <= VerticalCeiling
    /\ attempts <= CarouselCeiling
    /\ scroll_attempts <= max_scroll_attempts
    /\ review_steps <= review_bound

\* C7: the ledger only grows: in every step of a run, sampling steps, scroll
\* advances, carousel sweeps, swallowed failures and new calls included,
\* seen_hashes afterwards is a superset of seen_hashes before
C7_LedgerMonotone == [][seen_hashes \subseteq seen_hashes']_vars

\* a second call is sweeping a carousel with both dishes in the ledger
C7_Witness ==
    /\ program = "SCRAPE" /\ calls = 2 /\ pc = "c_loop"
    /\ Cardinality(seen_hashes) = 2

StrictlyIncreasing(q) == \A j, k \in 1..Len(q) : j < k => q[j] < q[k]

\* C8: the index is built before any sampling step, no carousel is swept
\* before the vertical sweep has completed, carousels are swept one at a time
\* in the order enumerated, and the result is returned only after the last
\* container has been dealt with
C8_OrchestrationOrder ==
    program = "SCRAPE" =>
        /\ (pc \in {"idle", "loaded"} /\ calls <= 1) => seen_hashes = {}
        /\ pc \in {"v_loop", "v_confirm", "v_return"} =>
              phases = {"index"} /\ swept = <<>>
        /\ pc \in {"h_find", "h_iter", "c_loop"} => phases = {"index", "vertical"}
        /\ pc = "c_loop" =>
              /\ swept # <<>> /\ swept[Len(swept)] = div
              /\ div <= n_carousels
        /\ pc = "h_iter" => \A k \in 1..Len(swept) : swept[k] < div
        /\ StrictlyIncreasing(swept)
        /\ pc = "final" => phases = {"index", "vertical", "panels"}
        /\ pc = "done" => phases = {"index", "vertical", "panels", "returned"}
        /\ "returned" \in phases => pc = "done"

\* a call has returned after sweeping the first and the third container
C8_Witness ==
    /\ program = "SCRAPE" /\ pc = "done"
    /\ swept = <<1, 3>>

\* C9: at the start of every call of scrape_restaurant the ledger and the
\* mapping are empty
C9_FreshAtEveryCall ==
    (program = "SCRAPE" /\ pc = "loaded") =>
        (seen_hashes = {} /\ DOMAIN master_menu = {})

\* C10: once a vertical sweep has completed the vertical offset is 0 before
\* carousel discovery (SCRAPE.py) or extraction (doordash_scraper.py) begins,
\* and the backward steps of _scroll_page still to come cover the offset exactly
C10_BackToOrigin ==
    /\ (program = "SCRAPE" /\ pc \in {"h_find", "h_iter", "c_loop", "final"})
          => scrollY = 0
    /\ (program = "doordash_scraper" /\ pc = "p_back_loop")
          => pageYOffset = back_left * step_size
    /\ (program = "doordash_scraper" /\ pc = "p_extract") => pageYOffset = 0

\* the stepped return of _scroll_page has made its last step, from an offset
\* that was not 0
C10_Witness ==
    /\ program = "doordash_scraper" /\ pc = "p_back_loop"
    /\ back_left = 0 /\ step_size > 0 /\ pageYOffset = 0


C11_Located ==
    /\ queried.result = "true" =>
          /\ pc = "c_loop" /\ div = queried.div
          /\ swept # <<>> /\ swept[Len(swept)] = queried.div
    /\ queried.result \in {"false", "raises"} =>
          /\ pc = "h_iter" /\ div = queried.div + 1
          /\ \A k \in 1..Len(swept) : swept[k] # queried.div

C11_OnlyPanels ==
    /\ (swept' # swept /\ swept' # <<>>) =>
          /\ queried'.result = "true"
          /\ swept' = Append(swept, queried'.div)
    /\ (pc = "h_iter" /\ pc' = "c_loop") => queried'.result = "true"
    /\ (pc = "h_iter" /\ pc' = "h_iter") =>
          /\ queried' = [div |-> div, result |-> queried'.result]
          /\ queried'.result \in {"false", "raises"}

\* C11: a panel sweep is started for a container exactly when its
\* scrollability query answers true; a container whose query answers false or
\* fails is not swept and the enumeration goes on with the next container, so
\* that of three containers of which only the second is scrollable exactly
\* that one is swept
C11_PanelLocation == []C11_Located /\ [][C11_OnlyPanels]_vars

\* of three containers the first two were queried, only the second was swept,
\* and the query of the third has just failed
C11_Witness ==
    /\ program = "SCRAPE" /\ pc = "h_iter"
    /\ n_carousels = 3 /\ div = 4
    /\ swept = <<2>>
    /\ queried = [div |-> 3, result |-> "raises"]


\* the snapshot without the nodes whose extraction raises
WithoutMalformed(view) == SelectSeq(view, LAMBDA n : ~n.malformed)

C12_NodeLeavesNoTrace ==
    \A n \in Nodes : n.malformed => ProcessNode(n, Ledger, categories_map) = Ledger

C12_LaterNodesSampled ==
    last_view'.taken =>
        [menu |-> master_menu', seen |-> seen_hashes'] =
            ParseCurrentView(WithoutMalformed(last_view'.view), Ledger, categories_map)

\* C12: a node whose extraction fails leaves master_menu and seen_hashes as
\* they were before it was processed, whatever the ledger holds at that
\* moment, and every sample has the result that the same snapshot without its
\* failing nodes would have had
C12_FailureIsolated == []C12_NodeLeavesNoTrace /\ [][C12_LaterNodesSampled]_vars

\* the snapshot sampled last showed a node that failed, followed by the fries,
\* neither of which the ledger knew; the fries were recorded
C12_Witness ==
    /\ last_view = [taken |-> TRUE, view |-> <<BrokenNode, FriesNode>>]
    /\ resampled = FALSE
    /\ seen_hashes = {Fries}
    /\ \E c \in DOMAIN master_menu : master_menu[c] = <<[name |-> Fries, price |-> NoneText, image |-> NoneText]>>


\* C13: a sweep that is ended by an exception of the driver (page_source or a
\* scroll/position script raised) leaves scrape_restaurant with that
\* exception: the orchestration is never at its next container afterwards
C13_HardFailurePropagates ==
    sweep_end.how = "FAILED" => pc = "raised"


IsPrefix(q, r) == Len(q) <= Len(r) /\ SubSeq(r, 1, Len(q)) = q

\* C14: first seen wins: in every step each category of master_menu keeps its
\* sequence as a prefix of its new sequence, so that no record is changed,
\* moved or removed and new items are appended at the end, also when the
\* sample shows a recorded identity with another price, image or position
C14_FirstSeenWins ==
    [][\A c \in DOMAIN master_menu :
          /\ c \in DOMAIN master_menu'
          /\ IsPrefix(master_menu[c], master_menu'[c])]_vars

\* the burger was recorded from the node of line 12 at $5 with its image; the
\* latest sample showed it again at line 60, at $6 and without image, after
\* the fries, which were appended behind it
C14_Witness ==
    /\ last_view = [taken |-> TRUE, view |-> <<FriesNode, BurgerAgainNode>>]
    /\ resampled
    /\ categories_map = <<[line |-> 10, name |-> Starters]>>
    /\ master_menu[Starters] =
          <<[name |-> Burger, price |-> <<"$","5">>, image |-> <<"b">>],
            [name |-> Fries, price |-> NoneText, image |-> NoneText]>>


SortedByLine(index) ==
    \A j, k \in 1..Len(index) : j < k => index[j].line <= index[k].line

\* a label the index may hold: not "Menu" and of more than 2 characters
LabelAllowed(text) == text # MenuText /\ Len(text) > 2

NoFilteredLabel(index) == \A k \in 1..Len(index) : LabelAllowed(index[k].name)

\* the boundaries a snapshot contributes: stripped text, a missing line as 0
Contributed(h2s) ==
    { [line |-> LineOr0(h2s[k].sourceline), name |-> Strip(h2s[k].text)] :
        k \in { j \in 1..Len(h2s) : LabelAllowed(Strip(h2s[j].text)) } }

\* what _map_categories returns for every snapshot of headings; it does not
\* depend on the state and is evaluated before the first call
C15_Built ==
    \A h2s \in HeadingLists :
        LET index == MapCategories(h2s)
        IN /\ SortedByLine(index) /\ NoFilteredLabel(index)
           /\ { index[k] : k \in 1..Len(index) } = Contributed(h2s)
           /\ (\E b \in Contributed(h2s) : b.line = 0) => index[1].line = 0

C15_WellFormed ==
    /\ SortedByLine(categories_map) /\ NoFilteredLabel(categories_map)
    /\ calls = 0 => C15_Built

C15_Immutable == categories_map' # categories_map => pc = "loaded"

\* C15: the index _map_categories returns is sorted ascending by line, with the
\* headings without source line at line 0 in front, holds no heading named
\* "Menu" or of 2 or fewer characters, and is not changed by any step of a
\* call after it was built
C15_IndexSortedAndFrozen == []C15_WellFormed /\ [][C15_Immutable]_vars

\* a carousel sweep has sampled twice under the index [10 Starters, 50 Mains]
C15_Witness ==
    /\ program = "SCRAPE" /\ pc = "c_loop" /\ attempts = 2
    /\ categories_map = ScenarioIndex
    /\ seen_hashes # {}


\* C17: when the vertical sweeper or a carousel sweeper terminates, by
\* saturation or at its step ceiling, it has sampled since its last scroll
\* advance
C17_LastAdvanceSampled ==
    (sweep_end.axis \in {"vertical", "panel"} /\ sweep_end.how \in {"SATURATED", "ABORTED"})
        => ~unsampled


\* the places of master_menu: a category and an index into its sequence
Entries == UNION { { <<c, k>> : k \in 1..Len(master_menu[c]) } : c \in DOMAIN master_menu }

\* C18: every item of master_menu and every key of seen_hashes has a non-empty
\* name: a node whose label is missing or empty, or leaves nothing once the
\* part from the first '$' on is cut off and the rest stripped, is dropped
C18_NamesNonEmpty ==
    /\ \A e \in Entries : master_menu[e[1]][e[2]].name # <<>>
    /\ <<>> \notin seen_hashes

\* C19: the ledger and the mapping stay in step: seen_hashes has as many keys
\* as master_menu has items over all its categories, the names of the items
\* are exactly the keys, and no category maps to an empty sequence
C19_LedgerInStep ==
    /\ Cardinality(seen_hashes) = Cardinality(Entries)
    /\ { master_menu[e[1]][e[2]].name : e \in Entries } = seen_hashes
    /\ \A c \in DOMAIN master_menu : master_menu[c] # <<>>

\* two items in two categories; the latest sample showed a node without
\* label and a node that failed, which left both ledger and mapping alone
C19_Witness ==
    /\ last_view = [taken |-> TRUE, view |-> <<NoLabelNode, BrokenNode>>]
    /\ Cardinality(seen_hashes) = 2
    /\ Fries \notin seen_hashes
    /\ Cardinality(DOMAIN master_menu) = 2

====
